---------------------------- MODULE Spec2Model ----------------------------
(***************************************************************************)
(* Model of ModuleList.cpp: the console program that lists the modules of  *)
(* a Windows process (wmain, GetModuleListInProcess, ScopedHandle,         *)
(* Win32Error / ThrowLastWin32Error), together with the Tool Help calls it *)
(* makes (CreateToolhelp32Snapshot, Module32First, Module32Next,           *)
(* GetLastError, CloseHandle) and StrToInt64ExW.                           *)
(*                                                                         *)
(* Integers wider than 31 bits are kept as little-endian sequences of      *)
(* 16-bit limbs: a LONGLONG is four limbs (two's complement), a DWORD two. *)
(* Text is a sequence of one-character strings.                            *)
(* The arithmetic binds each operand once (x \in {v}) so that it is         *)
(* evaluated once however often its limbs are used.                        *)
(***************************************************************************)
EXTENDS Integers, Sequences, FiniteSets, TLC

VARIABLES
    pc,                   \* position of the single thread
    argv,                 \* command line, argv[1] is the program name (C argv[0])
    script,               \* what the OS will report for the target process
    lastError,            \* the thread's last-error value (GetLastError)
    snap,                 \* open snapshot handles -> entries delivered so far
    handleCount,          \* handles the OS has handed out so far
    osCalls,              \* OS calls made so far, in order
    llResult,             \* wmain: LONGLONG llResult
    processID,            \* wmain: DWORD processID (also the callee's parameter)
    enumHandle,           \* GetModuleListInProcess: enumHandle.m_handle
    moduleEntry,          \* GetModuleListInProcess: MODULEENTRY32 moduleEntry
    continueEnumeration,  \* GetModuleListInProcess: BOOL continueEnumeration
    moduleList,           \* GetModuleListInProcess: std::vector<ModuleInfo> moduleList
    lastErrorLocal,       \* GetModuleListInProcess: const DWORD lastError
    exc,                  \* exception in flight, or NoException
    allocFailedAt,        \* number of the push_back that threw std::bad_alloc, 0 if none
    result,               \* what the call handed back to its caller
    stdout,               \* lines written to std::wcout
    exitCode,             \* value returned by wmain, or NotExited
    outcomes              \* outcomes of the successive calls made by a direct caller

vars == <<pc, argv, script, lastError, snap, handleCount, osCalls, llResult,
          processID, enumHandle, moduleEntry, continueEnumeration, moduleList,
          lastErrorLocal, exc, allocFailedAt, result, stdout, exitCode, outcomes>>

---------------------------------------------------------------------------
(* Bounds of the model *)

\* most entries a snapshot delivers
MaxModules == 2
\* most command-line arguments after the program name
MaxArgs == 2

---------------------------------------------------------------------------
(* Program and platform constants *)

kExitOk == 0
kExitError == 1
ERROR_NO_MORE_FILES == 18
INVALID_HANDLE_VALUE == -1

\* error codes CreateToolhelp32Snapshot may leave when it fails
\* (ERROR_ACCESS_DENIED, ERROR_INVALID_PARAMETER)
OpenFailureCodes == {5, 87}
\* error codes a failing Module32First / Module32Next may leave
\* (ERROR_NO_MORE_FILES, ERROR_BAD_LENGTH, ERROR_PARTIAL_COPY)
FetchEndCodes == {ERROR_NO_MORE_FILES, 24, 299}
\* what the thread's last-error value may hold before the program's first OS call
StaleErrors == {0, ERROR_NO_MORE_FILES}
\* a successful call leaves the last-error value alone or resets it
Clobber(e) == {e, 0}

NoException == [kind |-> "none"]
NotExited == -1
NoEntry == [szModule |-> "", modBaseSize |-> <<0, 0>>]
NoResult == [returned |-> FALSE, list |-> <<>>]

MsgInit == "Cannot init the module enumeration process (CreateToolhelp32Snapshot failed)."
MsgUnexpected == "Unexpected termination of the module enumeration process."

---------------------------------------------------------------------------
(* Fixed-width integers *)

LimbBase == 2^16

\* a small natural as a DWORD
DW(n) == <<n % LimbBase, n \div LimbBase>>

\* LONGLONG v*10 + d, wrapping modulo 2^64
Mul10Add(v, d) ==
    LET step(x) ==
            LET c1 == x[1] * 10 + d
                c2 == x[2] * 10 + (c1 \div LimbBase)
                c3 == x[3] * 10 + (c2 \div LimbBase)
                c4 == x[4] * 10 + (c3 \div LimbBase)
            IN  <<c1 % LimbBase, c2 % LimbBase, c3 % LimbBase, c4 % LimbBase>>
    IN  CHOOSE r \in {step(x) : x \in {v}} : TRUE

\* LONGLONG -v (two's complement), wrapping modulo 2^64
Negate(v) ==
    LET step(x) ==
            LET c1 == (LimbBase - 1 - x[1]) + 1
                c2 == (LimbBase - 1 - x[2]) + (c1 \div LimbBase)
                c3 == (LimbBase - 1 - x[3]) + (c2 \div LimbBase)
                c4 == (LimbBase - 1 - x[4]) + (c3 \div LimbBase)
            IN  <<c1 % LimbBase, c2 % LimbBase, c3 % LimbBase, c4 % LimbBase>>
    IN  CHOOSE r \in {step(x) : x \in {v}} : TRUE

\* a conversion that saturates instead of truncating
CastSaturating(v) ==
    IF v[3] = 0 /\ v[4] = 0 THEN <<v[1], v[2]>> ELSE <<LimbBase - 1, LimbBase - 1>>

\* static_cast<DWORD>(LONGLONG): the low 32 bits
CastToDWORD(v) == <<v[1], v[2]>>

---------------------------------------------------------------------------
(* Text *)

Digits == <<"0", "1", "2", "3", "4", "5", "6", "7", "8", "9">>
IsDigit(c) == \E i \in 1..10 : Digits[i] = c
DigitVal(c) == (CHOOSE i \in 1..10 : Digits[i] = c) - 1
IsSpace(c) == c = " "

RECURSIVE SkipSpaces(_)
SkipSpaces(s) ==
    IF s # <<>> /\ IsSpace(Head(s)) THEN SkipSpaces(Tail(s)) ELSE s

RECURSIVE ParseDigits(_, _)
ParseDigits(s, acc) ==
    IF s # <<>> /\ IsDigit(Head(s))
    THEN ParseDigits(Tail(s), Mul10Add(acc, DigitVal(Head(s))))
    ELSE acc

\* StrToInt64ExW(str, STIF_DEFAULT, &result): leading white space, an optional
\* sign, then decimal digits up to the first other character; FALSE when no
\* digit is found
StrToInt64ExW(str) ==
    LET t == SkipSpaces(str)
        negative == t # <<>> /\ Head(t) = "-"
        u == IF t # <<>> /\ Head(t) \in {"-", "+"} THEN Tail(t) ELSE t
        magnitude == ParseDigits(u, <<0, 0, 0, 0>>)
    IN  IF u = <<>> \/ ~IsDigit(Head(u))
        THEN [ok |-> FALSE, value |-> <<0, 0, 0, 0>>]
        ELSE [ok |-> TRUE,
              value |-> IF negative THEN Negate(magnitude) ELSE magnitude]

\* operator<<(DWORD): the decimal digits of an unsigned 32-bit value
RECURSIVE FormatDWORD(_)
FormatDWORD(d) ==
    LET t(x) == (x[2] % 10) * LimbBase + x[1]
        quotient(x) == <<t(x) \div 10, x[2] \div 10>>
        digit(x) == Digits[(t(x) % 10) + 1]
        step(x) ==
            CHOOSE r \in { IF q = <<0, 0>> THEN <<digit(x)>>
                                          ELSE Append(FormatDWORD(q), digit(x)) :
                           q \in {quotient(x)} } : TRUE
    IN  CHOOSE r \in {step(x) : x \in {d}} : TRUE

---------------------------------------------------------------------------
(* Inputs *)

ProgName == <<"M", "L">>

\* "4242", "0", "abc", "", "-", "-1", "+7", " 42", "12abc", "007",
\* "4294967295" (2^32 - 1), "4294967296" (2^32), "4294971538" (2^32 + 4242),
\* "-4294963054" (4242 - 2^32)
ArgStrings ==
    { <<"4", "2", "4", "2">>,
      <<"0">>,
      <<"a", "b", "c">>,
      <<>>,
      <<"-">>,
      <<"-", "1">>,
      <<"+", "7">>,
      <<" ", "4", "2">>,
      <<"1", "2", "a", "b", "c">>,
      <<"0", "0", "7">>,
      <<"4", "2", "9", "4", "9", "6", "7", "2", "9", "5">>,
      <<"4", "2", "9", "4", "9", "6", "7", "2", "9", "6">>,
      <<"4", "2", "9", "4", "9", "7", "1", "5", "3", "8">>,
      <<"-", "4", "2", "9", "4", "9", "6", "3", "0", "5", "4">> }

\* arguments used when more than one is given
FewArgs == { <<"4", "2", "4", "2">>, <<"a", "b", "c">> }

ArgvSet ==
    {<<ProgName>>}
    \cup {<<ProgName, a>> : a \in ArgStrings}
    \cup {<<ProgName>> \o l : l \in UNION {[1..n -> FewArgs] : n \in 2..MaxArgs}}

\* MODULEENTRY32 records the OS may deliver (szModule, modBaseSize)
ModuleEntries ==
    { [szModule |-> "alpha.dll", modBaseSize |-> <<1024, 0>>],
      [szModule |-> "beta.dll", modBaseSize |-> <<2048, 0>>],
      [szModule |-> "gamma.exe", modBaseSize |-> <<65535, 65535>>] }

\* what the OS reports for the target process: the snapshot cannot be opened
\* (with an error code), or it delivers some entries and then a fetch fails
\* leaving an error code
Scripts ==
    { [open |-> FALSE, openError |-> e, entries |-> <<>>,
       endError |-> ERROR_NO_MORE_FILES] : e \in OpenFailureCodes }
    \cup
    { [open |-> TRUE, openError |-> 0, entries |-> es, endError |-> e] :
        es \in UNION {[1..n -> ModuleEntries] : n \in 0..MaxModules},
        e \in FetchEndCodes }

---------------------------------------------------------------------------
(* The OS facility *)

Call(name, arg, ret) == [call |-> name, arg |-> arg, ret |-> ret]

\* Module32First / Module32Next on handle h: the next entry of the snapshot, or
\* failure with the last-error value set
Fetch(h, first) ==
    IF h \notin DOMAIN snap
    THEN [ok |-> FALSE, entry |-> NoEntry, delivered |-> 0, error |-> 6]
    ELSE LET k == IF first THEN 0 ELSE snap[h]
         IN  IF k < Len(script.entries)
             THEN [ok |-> TRUE, entry |-> script.entries[k + 1],
                   delivered |-> k + 1, error |-> 0]
             ELSE [ok |-> FALSE, entry |-> NoEntry, delivered |-> k,
                   error |-> script.endError]

---------------------------------------------------------------------------
(* Win32Error, ThrowLastWin32Error, ModuleInfo *)

Win32Error(errorMessage, errorCode) ==
    [kind |-> "Win32Error", what |-> errorMessage, errorCode |-> errorCode]

BadAlloc == [kind |-> "bad_alloc", what |-> "bad allocation", errorCode |-> 0]

\* ThrowLastWin32Error that does not capture the error code
ThrowWithoutCode(message, currentLastError) == Win32Error(message, 0)

\* the exception raised by ThrowLastWin32Error(message) when GetLastError
\* returns currentLastError
ThrowLastWin32Error(message, currentLastError) ==
    Win32Error(message, currentLastError)

ModuleInfo(name, size) == [Name |-> name, Size |-> size]

\* a vector that outlives the call (static storage)
KeepModuleList(previous) == previous

\* the empty vector a call starts with (previous is what the storage held)
NewModuleList(previous) == <<>>

\* the loop condition at line 141
LoopContinues == continueEnumeration

\* an insertion at the front instead of the back
PushFrontInto(list, info) == <<info>> \o list

\* moduleList.push_back(info), line 145
PushBackInto(list, info) == Append(list, info)

\* a test that complains only when nothing was collected
EndedNormallyLenient(err) == err = ERROR_NO_MORE_FILES \/ moduleList # << >>

\* the test at line 153: did the enumeration end because the list is exhausted
EndedNormally(err) == err = ERROR_NO_MORE_FILES

---------------------------------------------------------------------------
(* GetModuleListInProcess *)

calleeLocals == <<enumHandle, moduleEntry, continueEnumeration, moduleList,
                  lastErrorLocal>>
callerState == <<argv, script, llResult, processID, stdout, exitCode, outcomes>>

\* lines 124-131: CreateToolhelp32Snapshot failed
CreateSnapshotFails ==
    /\ pc = "call"
    /\ ~script.open
    /\ moduleList' = NewModuleList(moduleList)
    /\ allocFailedAt' = 0
    /\ lastError' = script.openError
    /\ osCalls' = osCalls
           \o << Call("CreateToolhelp32Snapshot", processID, INVALID_HANDLE_VALUE),
                 Call("GetLastError", 0, lastError') >>
    /\ exc' = ThrowLastWin32Error(MsgInit, lastError')
    /\ result' = NoResult
    /\ pc' = "callret"
    /\ UNCHANGED <<snap, handleCount, enumHandle, moduleEntry,
                   continueEnumeration, lastErrorLocal, callerState>>

\* lines 124-137: the snapshot is open and owned by enumHandle
CreateSnapshot ==
    /\ pc = "call"
    /\ script.open
    /\ moduleList' = NewModuleList(moduleList)
    /\ allocFailedAt' = 0
    /\ handleCount' = handleCount + 1
    /\ snap' = (handleCount' :> 0) @@ snap
    /\ lastError' \in Clobber(lastError)
    /\ osCalls' = Append(osCalls,
                         Call("CreateToolhelp32Snapshot", processID, handleCount'))
    /\ enumHandle' = handleCount'
    /\ moduleEntry' = NoEntry
    /\ exc' = NoException
    /\ result' = NoResult
    /\ pc' = "first"
    /\ UNCHANGED <<continueEnumeration, lastErrorLocal, callerState>>

\* the effect of one fetch on the callee and the OS
DoFetch(name, first) ==
    LET f == Fetch(enumHandle, first)
    IN  /\ continueEnumeration' = f.ok
        /\ moduleEntry' = IF f.ok THEN f.entry ELSE moduleEntry
        /\ snap' = IF enumHandle \in DOMAIN snap
                   THEN [snap EXCEPT ![enumHandle] = f.delivered] ELSE snap
        /\ IF f.ok THEN lastError' \in Clobber(lastError)
                   ELSE lastError' = f.error
        /\ osCalls' = Append(osCalls, Call(name, enumHandle, f.ok))

\* an enumeration started with Module32Next
Module32FirstAsNext ==
    /\ pc = "first"
    /\ DoFetch("Module32Next", FALSE)
    /\ pc' = "while"
    /\ UNCHANGED <<handleCount, enumHandle, moduleList, lastErrorLocal, exc,
                   allocFailedAt, result, callerState>>

\* line 140
Module32First ==
    /\ pc = "first"
    /\ DoFetch("Module32First", TRUE)
    /\ pc' = "while"
    /\ UNCHANGED <<handleCount, enumHandle, moduleList, lastErrorLocal, exc,
                   allocFailedAt, result, callerState>>

\* lines 141-145: the entry is appended
PushBack ==
    /\ pc = "while"
    /\ LoopContinues
    /\ moduleList' = PushBackInto(moduleList,
                                  ModuleInfo(moduleEntry.szModule,
                                             moduleEntry.modBaseSize))
    /\ pc' = "next"
    /\ UNCHANGED <<lastError, snap, handleCount, osCalls, enumHandle, moduleEntry,
                   continueEnumeration, lastErrorLocal, exc, allocFailedAt,
                   result, callerState>>

\* the exception path of a function that closes the handle by hand on its
\* return paths only
PushBackThrowsNoUnwind ==
    /\ pc = "while"
    /\ LoopContinues
    /\ exc' = BadAlloc
    /\ allocFailedAt' = Len(moduleList) + 1
    /\ pc' = "callret"
    /\ UNCHANGED <<lastError, snap, handleCount, osCalls, calleeLocals, result,
                   callerState>>

\* lines 141-145: an allocation made by line 145 (the ModuleInfo's string, the
\* vector's growth) fails; std::bad_alloc leaves the function
PushBackThrows ==
    /\ pc = "while"
    /\ LoopContinues
    /\ exc' = BadAlloc
    /\ allocFailedAt' = Len(moduleList) + 1
    /\ pc' = "dtor"
    /\ UNCHANGED <<lastError, snap, handleCount, osCalls, calleeLocals, result,
                   callerState>>

\* line 148
Module32Next ==
    /\ pc = "next"
    /\ DoFetch("Module32Next", FALSE)
    /\ pc' = "while"
    /\ UNCHANGED <<handleCount, enumHandle, moduleList, lastErrorLocal, exc,
                   allocFailedAt, result, callerState>>

\* lines 150-156: why did the loop end
CheckTermination ==
    /\ pc = "while"
    /\ ~LoopContinues
    /\ lastErrorLocal' = lastError
    /\ IF ~EndedNormally(lastErrorLocal')
       THEN /\ osCalls' = osCalls \o << Call("GetLastError", 0, lastError),
                                        Call("GetLastError", 0, lastError) >>
            /\ exc' = ThrowLastWin32Error(MsgUnexpected, lastError)
       ELSE /\ osCalls' = Append(osCalls, Call("GetLastError", 0, lastError))
            /\ exc' = NoException
    /\ pc' = "dtor"
    /\ UNCHANGED <<lastError, snap, handleCount, enumHandle, moduleEntry,
                   continueEnumeration, moduleList, allocFailedAt, result,
                   callerState>>

\* lines 44-48 and 158: ~ScopedHandle closes the handle as the function is
\* left, by return or by an exception
ScopedHandleDtor ==
    /\ pc = "dtor"
    /\ osCalls' = Append(osCalls,
                         Call("CloseHandle", enumHandle, enumHandle \in DOMAIN snap))
    /\ snap' = [h \in DOMAIN snap \ {enumHandle} |-> snap[h]]
    /\ IF enumHandle \in DOMAIN snap THEN lastError' \in Clobber(lastError)
                                     ELSE lastError' = 6
    /\ enumHandle' = INVALID_HANDLE_VALUE
    /\ result' = IF exc = NoException
                 THEN [returned |-> TRUE, list |-> moduleList] ELSE NoResult
    /\ pc' = "callret"
    /\ UNCHANGED <<handleCount, moduleEntry, continueEnumeration, moduleList,
                   lastErrorLocal, exc, allocFailedAt, callerState>>


---------------------------------------------------------------------------
(* wmain *)

Banner == << <<" *** Enumerate Modules in a Process *** ">>,
             <<"          by Giovanni Dicanio ">> >>
UsageCount == <<"Please pass the ID of the process to enumerate as the only parameter.">>
UsageInteger == <<"Please pass the ID of the process to enumerate as an integer in base 10.">>

HeaderLines(pid) == << <<" Module List for Process ID = ">> \o FormatDWORD(pid),
                       <<" ========================================">> >>
ModuleLine(moduleInfo) ==
    <<" - ", moduleInfo.Name, "  (">> \o FormatDWORD(moduleInfo.Size) \o <<" bytes)">>
\* the lines of a loop that walks the list backwards
ModuleLinesReversed(list) ==
    [i \in 1..Len(list) |-> ModuleLine(list[Len(list) + 1 - i])]
\* lines 208-211
ModuleLines(list) == [i \in 1..Len(list) |-> ModuleLine(list[i])]
ErrorLine(what) == <<"*** ERROR: ", what>>
ErrorCodeLine(code) == <<"    (Error code: ">> \o FormatDWORD(DW(code)) \o <<")">>

\* a test that never sees a failed conversion
ParseFailedIgnored(r) == FALSE

\* the test at line 187 on what StrToInt64ExW returned
ParseFailed(r) == ~r.ok

calleeState == <<snap, handleCount, osCalls, calleeLocals, exc, allocFailedAt,
                 result>>

\* lines 172-184: the banner, then the argument count
wmainCheckArgs ==
    /\ pc = "start"
    /\ IF Len(argv) # 2
       THEN /\ stdout' = stdout \o Banner \o <<UsageCount>>
            /\ exitCode' = kExitError
            /\ pc' = "exited"
       ELSE /\ stdout' = stdout \o Banner
            /\ exitCode' = exitCode
            /\ pc' = "parse"
    /\ lastError' \in Clobber(lastError)
    /\ UNCHANGED <<argv, script, llResult, processID, outcomes, calleeState>>

\* lines 186-192: the argument as a LONGLONG, then as a DWORD
wmainParse ==
    /\ pc = "parse"
    /\ IF ParseFailed(StrToInt64ExW(argv[2]))
       THEN /\ stdout' = Append(stdout, UsageInteger)
            /\ exitCode' = kExitError
            /\ pc' = "exited"
            /\ lastError' \in Clobber(lastError)
            /\ UNCHANGED <<llResult, processID>>
       ELSE /\ llResult' = StrToInt64ExW(argv[2]).value
            /\ processID' = CastToDWORD(llResult')
            /\ pc' = "call"
            /\ UNCHANGED <<stdout, exitCode, lastError>>
    /\ UNCHANGED <<argv, script, outcomes, calleeState>>

\* lines 199-213: the call returned a list
wmainPrint ==
    /\ pc = "callret"
    /\ exc = NoException
    /\ stdout' = stdout \o HeaderLines(processID) \o ModuleLines(result.list)
    /\ exitCode' = kExitOk
    /\ pc' = "exited"
    /\ lastError' \in Clobber(lastError)
    /\ UNCHANGED <<argv, script, llResult, processID, outcomes, calleeState>>

\* lines 218-223
wmainCatchWin32Error ==
    /\ pc = "callret"
    /\ exc.kind = "Win32Error"
    /\ stdout' = stdout \o <<ErrorLine(exc.what), ErrorCodeLine(exc.errorCode)>>
    /\ exitCode' = kExitError
    /\ pc' = "exited"
    /\ lastError' \in Clobber(lastError)
    /\ UNCHANGED <<argv, script, llResult, processID, outcomes, calleeState>>

\* a handler that swallows the exception
wmainCatchExceptionSilent ==
    /\ pc = "callret"
    /\ exc.kind \notin {"none", "Win32Error"}
    /\ exitCode' = kExitOk
    /\ pc' = "exited"
    /\ UNCHANGED <<stdout, lastError, argv, script, llResult, processID, outcomes,
                   calleeState>>

\* lines 224-228
wmainCatchException ==
    /\ pc = "callret"
    /\ exc.kind \notin {"none", "Win32Error"}
    /\ stdout' = Append(stdout, ErrorLine(exc.what))
    /\ exitCode' = kExitError
    /\ pc' = "exited"
    /\ lastError' \in Clobber(lastError)
    /\ UNCHANGED <<argv, script, llResult, processID, outcomes, calleeState>>

Init ==
    /\ pc = "start"
    /\ argv \in ArgvSet
    /\ script \in Scripts
    /\ lastError \in StaleErrors
    /\ snap = << >>
    /\ handleCount = 0
    /\ osCalls = << >>
    /\ llResult = <<0, 0, 0, 0>>
    /\ processID = <<0, 0>>
    /\ enumHandle = INVALID_HANDLE_VALUE
    /\ moduleEntry = NoEntry
    /\ continueEnumeration = FALSE
    /\ moduleList = << >>
    /\ lastErrorLocal = 0
    /\ exc = NoException
    /\ allocFailedAt = 0
    /\ result = NoResult
    /\ stdout = << >>
    /\ exitCode = NotExited
    /\ outcomes = << >>

Next ==
    \/ wmainCheckArgs
    \/ wmainParse
    \/ CreateSnapshotFails
    \/ CreateSnapshot
    \/ Module32First
    \/ PushBack
    \/ PushBackThrows
    \/ Module32Next
    \/ CheckTermination
    \/ ScopedHandleDtor
    \/ wmainPrint
    \/ wmainCatchWin32Error
    \/ wmainCatchException

Spec == Init /\ [][Next]_vars

\* the program's one thread runs until wmain returns
SpecFair == Init /\ [][Next]_vars /\ WF_vars(Next)

---------------------------------------------------------------------------
(* A caller that invokes GetModuleListInProcess several times in succession *)
(* for one process, on one thread                                          *)

\* calls made in succession
NumCalls == 2

\* process ids handed to the calls: 4242 and 2^32 - 1
CallerPids == { <<4242, 0>>, <<65535, 65535>> }

\* what a call did, as its caller sees it
Outcome ==
    [returned |-> result.returned, list |-> result.list, exc |-> exc,
     allocFailedAt |-> allocFailedAt]

\* the call is over: note its outcome, then call again or stop
CallerNext ==
    /\ pc = "callret"
    /\ outcomes' = Append(outcomes, Outcome)
    /\ pc' = IF Len(outcomes') < NumCalls THEN "call" ELSE "done"
    /\ UNCHANGED <<argv, script, llResult, processID, stdout, exitCode,
                   lastError, calleeState>>

InitCalls ==
    /\ pc = "call"
    /\ argv = << >>
    /\ script \in Scripts
    /\ lastError \in StaleErrors
    /\ snap = << >>
    /\ handleCount = 0
    /\ osCalls = << >>
    /\ llResult = <<0, 0, 0, 0>>
    /\ processID \in CallerPids
    /\ enumHandle = INVALID_HANDLE_VALUE
    /\ moduleEntry = NoEntry
    /\ continueEnumeration = FALSE
    /\ moduleList = << >>
    /\ lastErrorLocal = 0
    /\ exc = NoException
    /\ allocFailedAt = 0
    /\ result = NoResult
    /\ stdout = << >>
    /\ exitCode = NotExited
    /\ outcomes = << >>

NextCalls ==
    \/ CreateSnapshotFails
    \/ CreateSnapshot
    \/ Module32First
    \/ PushBack
    \/ PushBackThrows
    \/ Module32Next
    \/ CheckTermination
    \/ ScopedHandleDtor
    \/ CallerNext

SpecCalls == InitCalls /\ [][NextCalls]_vars

---------------------------------------------------------------------------
(* Properties *)

CallsNamed(name) == SelectSeq(osCalls, LAMBDA c : c.call = name)
Count(name) == Len(CallsNamed(name))
IsFetch(c) == c.call \in {"Module32First", "Module32Next"}
Fetches == SelectSeq(osCalls, IsFetch)
FailedFetches == SelectSeq(osCalls, LAMBDA c : IsFetch(c) /\ c.ret = FALSE)
GoodFetches == SelectSeq(osCalls, LAMBDA c : IsFetch(c) /\ c.ret = TRUE)
\* the snapshot was opened / was refused
Opened == /\ osCalls # << >>
          /\ osCalls[1].call = "CreateToolhelp32Snapshot"
          /\ osCalls[1].ret # INVALID_HANDLE_VALUE
Refused == /\ osCalls # << >>
           /\ osCalls[1].call = "CreateToolhelp32Snapshot"
           /\ osCalls[1].ret = INVALID_HANDLE_VALUE
\* the one call made by wmain is over
CallOver == pc \in {"callret", "exited"} /\ osCalls # << >>
\* the fetch loop ran to its end: a fetch reported failure
LoopEnded == FailedFetches # << >>
\* the records the OS delivered, as ModuleInfo values
Delivered == [i \in 1..Len(script.entries) |->
                 [Name |-> script.entries[i].szModule,
                  Size |-> script.entries[i].modBaseSize]]

\* C1 as stated: when a call of GetModuleListInProcess is over, however it
\* ended, CreateToolhelp32Snapshot and CloseHandle have each been called
\* exactly once.
C1_Original ==
    CallOver => Count("CreateToolhelp32Snapshot") = 1 /\ Count("CloseHandle") = 1

\* C1 amended: when a call is over, one snapshot was requested; if it was
\* opened, its handle has been closed exactly once (a valid close of that very
\* handle, as the last OS call of the function) on every exit path, and if it
\* was refused, CloseHandle has not been called; no handle is left open.
C1_Amended ==
    CallOver =>
        /\ Count("CreateToolhelp32Snapshot") = 1
        /\ DOMAIN snap = {}
        /\ IF Opened
           THEN /\ Count("CloseHandle") = 1
                /\ osCalls[Len(osCalls)] = Call("CloseHandle", osCalls[1].ret, TRUE)
           ELSE Count("CloseHandle") = 0

C1_Witness ==
    /\ pc = "callret"
    /\ Opened
    /\ exc.kind = "Win32Error" /\ exc.what = MsgUnexpected
    /\ Count("CloseHandle") = 1

\* C2: once the snapshot is open, the call returns a list exactly when the
\* fetch loop ended with the last-error value ERROR_NO_MORE_FILES; when it
\* ended with any other value the call raises Win32Error "Unexpected
\* termination ..." with that value and returns no list, whatever was
\* collected.
C2_ListIffNoMoreFiles ==
    (CallOver /\ Opened) =>
        /\ result.returned <=> (LoopEnded /\ script.endError = ERROR_NO_MORE_FILES)
        /\ (LoopEnded /\ script.endError # ERROR_NO_MORE_FILES) =>
               /\ exc = Win32Error(MsgUnexpected, script.endError)
               /\ result = NoResult

C2_Witness ==
    /\ pc = "callret"
    /\ Opened
    /\ Len(moduleList) = 2
    /\ exc.kind = "Win32Error"
    /\ ~result.returned

\* C3: when the snapshot delivered its N entries and then reported "no more
\* entries", the call returns exactly those N records, in the order delivered,
\* each with the entry's name and size; for N = 0 it returns the empty list.
C3_ExactlyTheDeliveredEntries ==
    (CallOver /\ Opened /\ LoopEnded /\ script.endError = ERROR_NO_MORE_FILES) =>
        /\ Len(GoodFetches) = Len(script.entries)
        /\ exc = NoException
        /\ result = [returned |-> TRUE, list |-> Delivered]

C3_Witness ==
    /\ pc = "callret"
    /\ result.returned
    /\ Len(result.list) = 2
    /\ result.list[1] # result.list[2]

\* C4: when CreateToolhelp32Snapshot returns INVALID_HANDLE_VALUE the call
\* raises at once Win32Error "Cannot init ..." with the non-zero error code the
\* OS left; no fetch is made, nothing is closed and no list is returned.
C4_RefusedSnapshot ==
    (CallOver /\ Refused) =>
        /\ exc = Win32Error(MsgInit, script.openError)
        /\ exc.errorCode # 0
        /\ Fetches = << >>
        /\ Count("CloseHandle") = 0
        /\ result = NoResult

C4_Witness ==
    /\ pc = "callret"
    /\ Refused
    /\ exc.what = MsgInit

\* C5: a snapshot is requested only when the program got exactly one argument
\* and StrToInt64ExW converted it; otherwise the program makes no OS call at
\* all and ends with the guidance line and status 1.
C5_EnumerationOnlyWithOneInteger ==
    LET oneInteger == Len(argv) = 2 /\ StrToInt64ExW(argv[2]).ok
    IN  /\ osCalls # << >> => oneInteger
        /\ (pc = "exited" /\ ~oneInteger) =>
               /\ osCalls = << >>
               /\ exitCode = kExitError
               /\ stdout = Banner \o
                     <<IF Len(argv) # 2 THEN UsageCount ELSE UsageInteger>>

C5_Witness ==
    /\ pc = "exited"
    /\ argv = <<ProgName, <<"a", "b", "c">>>>
    /\ osCalls = << >>
    /\ exitCode = kExitError

\* the program got one argument and StrToInt64ExW converted it
ArgsValid == Len(argv) = 2 /\ StrToInt64ExW(argv[2]).ok
\* the enumeration succeeded: the snapshot opened, every entry was appended and
\* the loop ended on "no more entries"
EnumerationSucceeded ==
    /\ script.open
    /\ allocFailedAt = 0
    /\ LoopEnded
    /\ script.endError = ERROR_NO_MORE_FILES

\* C6: wmain returns 0 exactly when it got one valid argument and the
\* enumeration succeeded, and then its output is the banner, the "Module List
\* for Process ID" header and one line per module, in the order delivered, each
\* with the module's size in decimal; for "4242" and alpha.dll (1024),
\* beta.dll (2048) the lines are the ones written out below.
C6_SuccessOutput ==
    pc = "exited" =>
        /\ exitCode = kExitOk <=> (ArgsValid /\ EnumerationSucceeded)
        /\ exitCode = kExitOk =>
               /\ Len(stdout) = Len(Banner) + 2 + Len(script.entries)
               /\ stdout[Len(Banner) + 1] =
                      <<" Module List for Process ID = ">> \o FormatDWORD(processID)
               /\ \A i \in 1..Len(script.entries) :
                      stdout[Len(Banner) + 2 + i] =
                          <<" - ", script.entries[i].szModule, "  (">>
                          \o FormatDWORD(script.entries[i].modBaseSize)
                          \o <<" bytes)">>
        /\ ( /\ exitCode = kExitOk
             /\ argv[2] = <<"4", "2", "4", "2">>
             /\ script.entries =
                    << [szModule |-> "alpha.dll", modBaseSize |-> <<1024, 0>>],
                       [szModule |-> "beta.dll", modBaseSize |-> <<2048, 0>>] >> )
           => SubSeq(stdout, Len(Banner) + 1, Len(stdout)) =
                  << <<" Module List for Process ID = ", "4", "2", "4", "2">>,
                     <<" ========================================">>,
                     <<" - ", "alpha.dll", "  (", "1", "0", "2", "4", " bytes)">>,
                     <<" - ", "beta.dll", "  (", "2", "0", "4", "8", " bytes)">> >>

C6_Witness ==
    /\ pc = "exited"
    /\ exitCode = kExitOk
    /\ argv = <<ProgName, <<"4", "2", "4", "2">>>>
    /\ Len(script.entries) = 2
    /\ script.entries[1].szModule = "alpha.dll"
    /\ script.entries[2].szModule = "beta.dll"

\* wmain has returned after a failure (argument count, conversion, snapshot
\* creation, abnormal end of the enumeration, an exception of another type):
\* it has written a message after the banner and returns 1, and for a
\* Win32Error the message ends with the error code the OS left
C7_FailureReported ==
    (pc = "exited" /\ ~(ArgsValid /\ EnumerationSucceeded)) =>
        /\ exitCode = kExitError
        /\ Len(stdout) > Len(Banner)
        /\ (ArgsValid /\ ~script.open) =>
               SubSeq(stdout, Len(Banner) + 1, Len(stdout)) =
                   << <<"*** ERROR: ", MsgInit>>,
                      <<"    (Error code: ">> \o FormatDWORD(DW(script.openError))
                          \o <<")">> >>
        /\ (ArgsValid /\ script.open /\ allocFailedAt = 0) =>
               SubSeq(stdout, Len(Banner) + 1, Len(stdout)) =
                   << <<"*** ERROR: ", MsgUnexpected>>,
                      <<"    (Error code: ">> \o FormatDWORD(DW(script.endError))
                          \o <<")">> >>
        /\ (ArgsValid /\ allocFailedAt # 0) =>
               SubSeq(stdout, Len(Banner) + 1, Len(stdout)) =
                   << <<"*** ERROR: ", "bad allocation">> >>

\* C7: the program always ends by returning from wmain, and whenever something
\* failed it has written a message after the banner and returns 1, with the
\* OS error code when the failure is a Win32Error; no failure ends with
\* status 0 or without output.
C7_EveryFailureReported == <>(pc = "exited") /\ []C7_FailureReported

C7_Witness ==
    /\ pc = "exited"
    /\ exc.kind = "bad_alloc"
    /\ exitCode = kExitError
    /\ Len(stdout) = Len(Banner) + 1

\* C8: successive calls for the same process, with the OS reporting the same
\* and the allocations faring the same, have the same outcome: the same list,
\* or the same exception with the same message and error code.
C8_SameOutcome ==
    pc = "done" =>
        \A i, j \in 1..Len(outcomes) :
            outcomes[i].allocFailedAt = outcomes[j].allocFailedAt
                => outcomes[i] = outcomes[j]

C8_Witness ==
    /\ pc = "done"
    /\ Len(outcomes) >= 2
    /\ outcomes[1].returned
    /\ Len(outcomes[1].list) = 2
    /\ outcomes[2] = outcomes[1]
    /\ Count("CloseHandle") >= 2

Rank(c) ==
    CASE c.call = "CreateToolhelp32Snapshot" -> 1
      [] c.call = "Module32First" -> 2
      [] c.call = "Module32Next" -> 3
      [] c.call = "GetLastError" -> 4
      [] c.call = "CloseHandle" -> 5

\* whatever OS calls have been made so far were made in the order open, first
\* fetch, next fetches, reads of the last-error value, close: one open, one
\* first fetch right after it, nothing after the close, no fetch after a fetch
\* that reported failure, and a read only after a failed open or fetch
CallsInOrder ==
    /\ \A i \in 1..(Len(osCalls) - 1) :
           /\ Rank(osCalls[i]) <= Rank(osCalls[i + 1])
           /\ Rank(osCalls[i]) = Rank(osCalls[i + 1])
                  => osCalls[i].call \in {"Module32Next", "GetLastError"}
           /\ osCalls[i + 1].call = "GetLastError" =>
                  \/ osCalls[i].call = "GetLastError"
                  \/ IsFetch(osCalls[i]) /\ osCalls[i].ret = FALSE
                  \/ Rank(osCalls[i]) = 1 /\ osCalls[i].ret = INVALID_HANDLE_VALUE
           /\ (IsFetch(osCalls[i]) /\ osCalls[i].ret = FALSE)
                  => osCalls[i + 1].call = "GetLastError"
    /\ (Opened /\ Len(osCalls) >= 2) => osCalls[2].call = "Module32First"

\* the call went through the whole sequence: N good fetches for the N records
\* collected, one failed fetch, the read of the last-error value, the close
WholeSequence ==
    /\ Len(GoodFetches) = Len(moduleList)
    /\ Len(FailedFetches) = 1
    /\ Len(Fetches) = Len(moduleList) + 1
    /\ Count("GetLastError") >= 1
    /\ osCalls[Len(osCalls)].call = "CloseHandle"

\* the error code of a raised Win32Error is the one the failing OS call left,
\* whatever the close did to the last-error value afterwards
CodeIsTheFailingCallsError ==
    (CallOver /\ exc.kind = "Win32Error") =>
        /\ exc.errorCode = IF Refused THEN script.openError ELSE script.endError
        /\ \A i \in 1..Len(osCalls) :
               osCalls[i].call = "GetLastError" => osCalls[i].ret = exc.errorCode

\* C9 as stated: every call that opened a snapshot makes the whole sequence of
\* OS calls, in order (open, first fetch, next fetches up to the first failed
\* one, read of the last-error value, close), and a raised Win32Error carries
\* the error the failing call left.
C9_Original ==
    /\ CallsInOrder
    /\ (CallOver /\ Opened) => WholeSequence
    /\ CodeIsTheFailingCallsError

\* C9 amended: the OS calls of a call that opened a snapshot are made in the
\* order open, first fetch, next fetches, read of the last-error value, close,
\* with no fetch after a failed fetch or after the close; the whole sequence
\* (N + 1 fetches for N records, then the read, then the close) is made when
\* the loop runs to its end, while a call left by an exception of line 145
\* makes only good fetches, as many as it had records to append, and then the
\* close, without reading the last-error value; a raised Win32Error carries
\* the error the failing call left, read before the close.
C9_Amended ==
    /\ CallsInOrder
    /\ (CallOver /\ Opened /\ allocFailedAt = 0) => WholeSequence
    /\ (CallOver /\ Opened /\ allocFailedAt # 0) =>
           /\ exc = BadAlloc
           /\ FailedFetches = << >>
           /\ Len(Fetches) = allocFailedAt
           /\ Count("GetLastError") = 0
           /\ osCalls[Len(osCalls)].call = "CloseHandle"
    /\ CodeIsTheFailingCallsError

C9_Witness ==
    /\ pc = "callret"
    /\ Opened
    /\ Len(Fetches) = 3
    /\ exc.kind = "Win32Error"
    /\ lastError # exc.errorCode

\* the decimal text of v mod 2^32 for the arguments whose value v is fixed here
\* by hand
C10_Expected ==
    (<<"4", "2", "4", "2">> :> <<"4", "2", "4", "2">>)
    @@ (<<"0">> :> <<"0">>)
    @@ (<<"4", "2", "9", "4", "9", "6", "7", "2", "9", "5">>
            :> <<"4", "2", "9", "4", "9", "6", "7", "2", "9", "5">>)
    @@ (<<"-", "1">> :> <<"4", "2", "9", "4", "9", "6", "7", "2", "9", "5">>)
    @@ (<<"4", "2", "9", "4", "9", "6", "7", "2", "9", "6">> :> <<"0">>)
    @@ (<<"4", "2", "9", "4", "9", "7", "1", "5", "3", "8">>
            :> <<"4", "2", "4", "2">>)
    @@ (<<"-", "4", "2", "9", "4", "9", "6", "3", "0", "5", "4">>
            :> <<"4", "2", "4", "2">>)

\* C10: an argument that converts to a value v outside 0 .. 2^32 - 1 is not
\* refused: the process id given to CreateToolhelp32Snapshot and printed in the
\* header is v mod 2^32 (so "4242", "4294971538" and "-4294963054" all
\* enumerate process 4242), and it is the number typed exactly when
\* 0 <= v < 2^32.
C10_ProcessIdModulo ==
    (ArgsValid /\ pc \notin {"start", "parse"}) =>
        LET v == StrToInt64ExW(argv[2]).value
        IN  /\ llResult = v
            /\ \A i \in 1..Len(stdout) : stdout[i] # UsageInteger
            /\ pc # "call" =>
                   osCalls[1] = Call("CreateToolhelp32Snapshot", processID,
                                     osCalls[1].ret)
            /\ argv[2] \in DOMAIN C10_Expected =>
                   FormatDWORD(processID) = C10_Expected[argv[2]]
            /\ (FormatDWORD(processID) = argv[2]) => (v[3] = 0 /\ v[4] = 0)
            /\ (<<processID[1], processID[2], 0, 0>> = v) <=> (v[3] = 0 /\ v[4] = 0)
            /\ exitCode = kExitOk =>
                   stdout[Len(Banner) + 1] =
                       <<" Module List for Process ID = ">> \o FormatDWORD(processID)

C10_Witness ==
    /\ pc = "exited"
    /\ exitCode = kExitOk
    /\ argv = <<ProgName, <<"4", "2", "9", "4", "9", "7", "1", "5", "3", "8">>>>
    /\ osCalls[1].arg = <<4242, 0>>
    /\ stdout[Len(Banner) + 1] =
           <<" Module List for Process ID = ", "4", "2", "4", "2">>

=============================================================================
